---------------------------- MODULE Spec2Model ----------------------------
(***************************************************************************)
(* A model of the solawi share-management back office: the JSON API of     *)
(* src/solawi/api.py and the legacy HTML routes of src/solawi/old_app.py,  *)
(* over the stored records (users, shares, members, bets, deposits,        *)
(* persons).  One action per HTTP handler; each action is a whole request, *)
(* from the decorators that guard it to the response it returns.           *)
(*                                                                         *)
(* solawi/models.py and solawi/controller.py are not among the source      *)
(* files; what the handlers call there (get, save, delete, the password    *)
(* setter, authenticate_and_get, merge, import_deposits, the amount maps)  *)
(* is modelled from the specification's description of it.                 *)
(***************************************************************************)
EXTENDS Integers, Sequences, FiniteSets, TLC

(***************************************************************************)
(* Bounds of the model.                                                    *)
(***************************************************************************)
\* Requests served in one behaviour.
MaxRequests == 2
\* Staff accounts.
NumUsers == 2
\* The calendar: days 1..MaxDay.
MaxDay == 2

(***************************************************************************)
(* Program constants.                                                      *)
(***************************************************************************)
\* PatchUserModel: password: constr(min_length=14)
MinPasswordLen == 14

(***************************************************************************)
(* Optional values: Python's None and a present value.                     *)
(***************************************************************************)
None == {}
Some(v) == {v}
The(o) == CHOOSE v \in o : TRUE

(***************************************************************************)
(* A field of a JSON payload is absent, null, or carries a value.          *)
(***************************************************************************)
Absent == {}
Null == {None}
Val(v) == {Some(v)}
Field(D) == {Absent, Null} \cup {Val(v) : v \in D}

(***************************************************************************)
(* Value domains the requests draw from.                                   *)
(***************************************************************************)
AllEmails == <<"a@solawi", "b@solawi", "c@solawi", "d@solawi">>
UserIds == 1..NumUsers
Email(u) == AllEmails[u]
Emails == {Email(u) : u \in UserIds}
UnknownEmail == "nobody@solawi"
NoToken == ""
InitialPassword == "initial-password"
Passwords == {InitialPassword, "another-password", "short"}
Days == 1..MaxDay
StationIds == {1}
Names == {"Ada"}
Contacts == {"ada@home"}
Notes == {"paid late"}
Amounts == {30}
Titles == {"Ada Lovelace"}

VARIABLES
    users,      \* user id -> [email, password, password_changed_at]
    shares,     \* share id -> [name, note, archived, station_id, start_date]
    members,    \* member id -> [name, email, phone, share_id]
    bets,       \* bet id -> [share_id, value, start_date, end_date]
    deposits,   \* deposit id -> [person_id, amount, timestamp, title, ignore, is_security, added_by]
    persons,    \* person id -> [name, share_id]
    seq,        \* the next id of each table (ids are never reused)
    tokens,     \* the subjects (emails) of the access tokens issued
    sessions,   \* the users holding a legacy session cookie
    today,      \* the current date
    resp,       \* the last response: [op, tok, status, body]
    nreq        \* requests served

db == <<users, shares, members, bets, deposits, persons, seq>>
vars == <<users, shares, members, bets, deposits, persons, seq, tokens, sessions, today, resp, nreq>>

(***************************************************************************)
(* Function helpers.                                                       *)
(***************************************************************************)
Put(f, k, v) == [x \in DOMAIN f \cup {k} |-> IF x = k THEN v ELSE f[x]]
Drop(f, k) == [x \in DOMAIN f \ {k} |-> f[x]]

RECURSIVE SumOver(_, _)
SumOver(S, f) ==
    IF S = {} THEN 0
    ELSE LET x == CHOOSE y \in S : TRUE IN f[x] + SumOver(S \ {x}, f)

(***************************************************************************)
(* models.py (modelled from the specification).                            *)
(***************************************************************************)
\* The stored form of a password: a salted hash, never the clear text.
Hash(p) == <<"bcrypt", p>>
check_password_hash(h, p) == h = Hash(p)

\* User.authenticate_and_get(email, password): the record, or no record.
authenticate_and_get(email, password) ==
    {u \in UserIds : users[u].email = email /\ check_password_hash(users[u].password, password)}

\* The password setter of User: stores the hash and stamps password_changed_at.
set_password(u, password) ==
    [u EXCEPT !.password = Hash(password), !.password_changed_at = Some(today)]

\* A foreign key must name a stored record, else save() fails.
share_fk_ok(share_id) == share_id \in DOMAIN shares
person_fk_ok(person_id) == person_id \in DOMAIN persons

NewShare == [name |-> None, note |-> None, archived |-> None, station_id |-> None, start_date |-> None]

(***************************************************************************)
(* Responses.                                                              *)
(***************************************************************************)
NoBody == <<>>
Respond(op, tok, status, body) ==
    /\ resp' = [op |-> op, tok |-> tok, status |-> status, body |-> body]
    /\ nreq' = nreq + 1

\* A request that is turned away: nothing is written.
Reject(op, tok, status) ==
    /\ Respond(op, tok, status, NoBody)
    /\ UNCHANGED <<db, tokens, sessions, today>>

\* The bearer tokens a client can present: none, or one that was issued.
Bearers == {NoToken} \cup tokens

(***************************************************************************)
(* login_required (api.py): verify the token, resolve its subject, and     *)
(* turn away an account whose password was never changed.                  *)
(***************************************************************************)
login_required_unchecked(tok) ==
    IF tok \notin tokens THEN 401 ELSE 200

login_required(tok) ==
    IF tok \notin tokens THEN 401
    ELSE LET current_user == CHOOSE u \in UserIds : users[u].email = tok IN
         IF users[current_user].password_changed_at = None THEN 403 ELSE 200

\* @login_required() above @validate(): the gate runs first.
gate_then_validate(tok, valid) ==
    IF login_required(tok) # 200 THEN login_required(tok)
    ELSE IF ~valid THEN 400 ELSE 200

\* @validate() above @login_required(): the body is validated first.
validate_then_gate(tok, valid) ==
    IF ~valid THEN 400 ELSE login_required(tok)

(***************************************************************************)
(* pydantic: a model with extra=Extra.forbid rejects a payload holding an  *)
(* unknown field; a model without it ignores the field.  A required field  *)
(* must be present and not null.  dict() gives None for an absent field.   *)
(***************************************************************************)
Required(body, f) == body[f] # Absent /\ body[f] # Null
Dict(body, f) == UNION body[f]
Forbid(body) == ~body.extra
Ignore(body) == TRUE

(***************************************************************************)
(* POST /login                                                             *)
(***************************************************************************)
LoginBodies == [email : Field(Emails \cup {UnknownEmail}), password : Field(Passwords), extra : BOOLEAN]

LoginSchema(body) == Required(body, "email") /\ Required(body, "password") /\ Ignore(body)

api_login(body) ==
    /\ nreq < MaxRequests
    /\ IF ~LoginSchema(body) THEN Reject("api_login", NoToken, 400)
       ELSE LET email == The(Dict(body, "email"))
                user == authenticate_and_get(email, The(Dict(body, "password")))
            IN IF user # {}
               THEN /\ tokens' = tokens \cup {email}
                    /\ Respond("api_login", NoToken, 200, NoBody)
                    /\ UNCHANGED <<db, sessions, today>>
               ELSE Reject("api_login", NoToken, 401)

(***************************************************************************)
(* PATCH /users/{id}                                                       *)
(***************************************************************************)
UserBodies == [password : Field(Passwords), extra : BOOLEAN]

PatchUserModel(body) ==
    /\ Required(body, "password")
    /\ Len(The(Dict(body, "password"))) >= MinPasswordLen
    /\ Ignore(body)

modify_user_any(tok, id, body) ==
    /\ nreq < MaxRequests
    /\ LET s == gate_then_validate(tok, PatchUserModel(body)) IN
       IF s # 200 THEN Reject("modify_user", tok, s)
       ELSE IF id \notin UserIds THEN Reject("modify_user", tok, 404)
       ELSE /\ users' = [users EXCEPT ![id] = set_password(users[id], The(Dict(body, "password")))]
            /\ Respond("modify_user", tok, 200, NoBody)
            /\ UNCHANGED <<shares, members, bets, deposits, persons, seq, tokens, sessions, today>>

modify_user(tok, id, body) ==
    /\ nreq < MaxRequests
    /\ LET s == gate_then_validate(tok, PatchUserModel(body)) IN
       IF s # 200 THEN Reject("modify_user", tok, s)
       ELSE IF id \notin UserIds THEN Reject("modify_user", tok, 404)
       ELSE IF users[id].email # tok THEN Reject("modify_user", tok, 403)
       ELSE /\ users' = [users EXCEPT ![id] = set_password(users[id], The(Dict(body, "password")))]
            /\ Respond("modify_user", tok, 200, NoBody)
            /\ UNCHANGED <<shares, members, bets, deposits, persons, seq, tokens, sessions, today>>

(***************************************************************************)
(* Read-only endpoints: they answer and write nothing.                     *)
(***************************************************************************)
ListOps == {"shares_list", "member_list", "get_stations", "user_list"}

\* GET /shares, /members, /stations, /users
get_list(tok, op) ==
    /\ nreq < MaxRequests
    /\ Reject(op, tok, login_required(tok))

\* GET /shares/{id}/emails, /shares/{id}/deposits, /shares/{id}/bets: Share.get
\* and the listings by share id; GET /person/{id}: Person.get
ByShareOps == {"share_email_list", "share_deposits", "share_bets"}

get_by_id(tok, op, id) ==
    /\ nreq < MaxRequests
    /\ LET found == IF op = "get_person" THEN id \in DOMAIN persons
                    ELSE IF op = "share_email_list" THEN id \in DOMAIN shares
                    ELSE TRUE
       IN IF login_required(tok) # 200 THEN Reject(op, tok, login_required(tok))
          ELSE IF ~found THEN Reject(op, tok, 404)
          ELSE Reject(op, tok, 200)

(***************************************************************************)
(* Members                                                                 *)
(***************************************************************************)
\* The ids a request may name: the stored ones and one that is not stored.
ShareIdInputs == DOMAIN shares \cup {seq.share}
MemberIdInputs == DOMAIN members \cup {seq.member}
BetIdInputs == DOMAIN bets \cup {seq.bet}
DepositIdInputs == DOMAIN deposits \cup {seq.deposit}
PersonIdInputs == DOMAIN persons \cup {seq.person}

MemberBodies ==
    [name : Field(Names), share_id : Field(ShareIdInputs \cup {0}), email : Field(Contacts),
     phone : {Absent} \cup {Val(v) : v \in Contacts}, extra : BOOLEAN]

\* class MemberSchema(BaseModel, extra=Extra.forbid)
MemberSchema(body) == Required(body, "name") /\ Forbid(body)

\* class MemberPatchSchema(MemberSchema): name becomes optional, the config is inherited
MemberPatchSchema(body) == Forbid(body)

\* `if not share_id`: None and 0 are falsy
Falsy(o) == o = None \/ o = Some(0)

\* POST /members: the variant that opens a new share for every member
post_member_always_new(tok, body) ==
    /\ nreq < MaxRequests
    /\ LET s == gate_then_validate(tok, MemberSchema(body)) IN
       IF s # 200 THEN Reject("post_member", tok, s)
       ELSE LET share_id == seq.share
                member == [name |-> The(Dict(body, "name")), email |-> Dict(body, "email"),
                           phone |-> Dict(body, "phone"), share_id |-> share_id]
            IN /\ shares' = Put(shares, seq.share, NewShare)
               /\ members' = Put(members, seq.member, member)
               /\ seq' = [seq EXCEPT !.member = @ + 1, !.share = @ + 1]
               /\ Respond("post_member", tok, 200, NoBody)
               /\ UNCHANGED <<users, bets, deposits, persons, tokens, sessions, today>>

\* POST /members
post_member(tok, body) ==
    /\ nreq < MaxRequests
    /\ LET s == gate_then_validate(tok, MemberSchema(body)) IN
       IF s # 200 THEN Reject("post_member", tok, s)
       ELSE LET fresh == Falsy(Dict(body, "share_id"))
                share_id == IF fresh THEN seq.share ELSE The(Dict(body, "share_id"))
                member == [name |-> The(Dict(body, "name")), email |-> Dict(body, "email"),
                           phone |-> Dict(body, "phone"), share_id |-> share_id]
            IN IF ~fresh /\ ~share_fk_ok(share_id) THEN Reject("post_member", tok, 500)
               ELSE /\ shares' = IF fresh THEN Put(shares, seq.share, NewShare) ELSE shares
                    /\ members' = Put(members, seq.member, member)
                    /\ seq' = [seq EXCEPT !.member = @ + 1,
                                          !.share = IF fresh THEN @ + 1 ELSE @]
                    /\ Respond("post_member", tok, 200, NoBody)
                    /\ UNCHANGED <<users, bets, deposits, persons, tokens, sessions, today>>

\* `if value is not None: setattr(member, key, value)`
patch_attr(old, o) == IF o # None THEN The(o) ELSE old
patch_opt_attr(old, o) == IF o # None THEN o ELSE old

\* The variant without the `is not None` test on the optional contact fields.
apply_member_patch_all(member, body) ==
    [name |-> IF Dict(body, "name") # None THEN The(Dict(body, "name")) ELSE member.name,
     email |-> Dict(body, "email"),
     phone |-> Dict(body, "phone"),
     share_id |-> IF Dict(body, "share_id") # None THEN The(Dict(body, "share_id")) ELSE member.share_id]

apply_member_patch(member, body) ==
    [name |-> patch_attr(member.name, Dict(body, "name")),
     email |-> patch_opt_attr(member.email, Dict(body, "email")),
     phone |-> patch_opt_attr(member.phone, Dict(body, "phone")),
     share_id |-> patch_attr(member.share_id, Dict(body, "share_id"))]

\* PATCH /members/{id}
patch_member(tok, member_id, body) ==
    /\ nreq < MaxRequests
    /\ LET s == gate_then_validate(tok, MemberPatchSchema(body)) IN
       IF s # 200 THEN Reject("patch_member", tok, s)
       ELSE IF member_id \notin DOMAIN members THEN Reject("patch_member", tok, 404)
       ELSE LET member == apply_member_patch(members[member_id], body) IN
            IF ~share_fk_ok(member.share_id) THEN Reject("patch_member", tok, 500)
            ELSE /\ members' = [members EXCEPT ![member_id] = member]
                 /\ Respond("patch_member", tok, 200, NoBody)
                 /\ UNCHANGED <<users, shares, bets, deposits, persons, seq, tokens, sessions, today>>

\* DELETE /members/{id}
member_delete(tok, member_id) ==
    /\ nreq < MaxRequests
    /\ IF login_required(tok) # 200 THEN Reject("member_delete", tok, login_required(tok))
       ELSE IF member_id \notin DOMAIN members THEN Reject("member_delete", tok, 404)
       ELSE /\ members' = Drop(members, member_id)
            /\ Respond("member_delete", tok, 204, NoBody)
            /\ UNCHANGED <<users, shares, bets, deposits, persons, seq, tokens, sessions, today>>

(***************************************************************************)
(* The amounts of a share (models.py, modelled from the specification).    *)
(***************************************************************************)
\* The non-ignored deposits attributed to the persons of a share.
deposits_of(share_id) ==
    {d \in DOMAIN deposits :
        /\ deposits[d].ignore # Some(TRUE)
        /\ deposits[d].person_id # None
        /\ The(deposits[d].person_id) \in DOMAIN persons
        /\ persons[The(deposits[d].person_id)].share_id = Some(share_id)}

\* share.total_deposits: None when the share has no deposit
total_deposits(share_id) ==
    IF deposits_of(share_id) = {} THEN None
    ELSE Some(SumOver(deposits_of(share_id), [d \in DOMAIN deposits |-> deposits[d].amount]))

\* Share.get_deposit_map(): only the shares that have deposits
get_deposit_map ==
    [s \in {x \in DOMAIN shares : deposits_of(x) # {}} |->
        [total_deposits |-> The(total_deposits(s)), number_of_deposits |-> Cardinality(deposits_of(s))]]

\* The bets of a share whose date range holds today.
active_bets(share_id) ==
    {b \in DOMAIN bets :
        /\ bets[b].share_id = share_id
        /\ bets[b].start_date <= today
        /\ (bets[b].end_date = None \/ today <= The(bets[b].end_date))}

\* share.expected_today: the pledge times the periods elapsed since its start
expected_today(share_id) ==
    SumOver(active_bets(share_id), [b \in DOMAIN bets |-> bets[b].value * (today - bets[b].start_date)])

\* Share.get_expected_amount_map(): only the shares that have an active bet
get_expected_amount_map ==
    [s \in {x \in DOMAIN shares : active_bets(x) # {}} |-> expected_today(s)]

(***************************************************************************)
(* Shares                                                                  *)
(***************************************************************************)
\* dict.get(key, default)
GetOr(map, k, default) == IF k \in DOMAIN map THEN map[k] ELSE default

\* The variant that reports expected minus total.
share_difference_expected_minus_total(expected, total) == expected - total

\* shares_details: -(Decimal(expected_today) - total_deposits)
share_difference(expected, total) == -(expected - total)

\* get_payment_list: total_deposits - expected_today
payment_difference(expected, total) == total - expected

\* GET /shares/{id}
shares_details(tok, share_id) ==
    /\ nreq < MaxRequests
    /\ IF login_required(tok) # 200 THEN Reject("shares_details", tok, login_required(tok))
       ELSE IF share_id \notin DOMAIN shares THEN Reject("shares_details", tok, 404)
       ELSE LET expected == expected_today(share_id)
                total == IF total_deposits(share_id) = None THEN 0 ELSE The(total_deposits(share_id))
                dict_share == [expected_today |-> expected, total_deposits |-> total,
                               difference_today |-> share_difference(expected, total)]
            IN /\ Respond("shares_details", tok, 200, [s \in {share_id} |-> dict_share])
               /\ UNCHANGED <<db, tokens, sessions, today>>

\* GET /shares/payment_status
get_payment_list(tok) ==
    /\ nreq < MaxRequests
    /\ IF login_required(tok) # 200 THEN Reject("get_payment_list", tok, login_required(tok))
       ELSE LET deposit_map == get_deposit_map
                expected_amount_map == get_expected_amount_map
                share_payments(s) ==
                    LET total == IF s \in DOMAIN deposit_map THEN deposit_map[s].total_deposits ELSE 0
                        expected == GetOr(expected_amount_map, s, 0)
                    IN [expected_today |-> expected, total_deposits |-> total,
                        difference_today |-> payment_difference(expected, total)]
            IN /\ Respond("get_payment_list", tok, 200, [s \in DOMAIN shares |-> share_payments(s)])
               /\ UNCHANGED <<db, tokens, sessions, today>>

SharePatchBodies == [note : Field(Notes), archived : Field(BOOLEAN), extra : BOOLEAN]

\* class SharePatchSchema(BaseModel, extra=Extra.forbid)
SharePatchSchema(body) == Forbid(body)

\* `for key, value in body.dict().items(): setattr(share, key, value)`
apply_share_patch(share, body) ==
    [share EXCEPT !.note = Dict(body, "note"), !.archived = Dict(body, "archived")]

\* PATCH /shares/{id}
patch_share(tok, share_id, body) ==
    /\ nreq < MaxRequests
    /\ LET s == gate_then_validate(tok, SharePatchSchema(body)) IN
       IF s # 200 THEN Reject("patch_share", tok, s)
       ELSE IF share_id \notin DOMAIN shares THEN Reject("patch_share", tok, 404)
       ELSE /\ shares' = [shares EXCEPT ![share_id] = apply_share_patch(shares[share_id], body)]
            /\ Respond("patch_share", tok, 200, NoBody)
            /\ UNCHANGED <<users, members, bets, deposits, persons, seq, tokens, sessions, today>>

ShareBodies ==
    [id : {Absent, Val("1")}, station_id : {Absent} \cup {Val(v) : v \in StationIds},
     note : Field(Notes), archived : Field(BOOLEAN), extra : BOOLEAN]

\* class ShareSchema(BaseModel): no extra=Extra.forbid
ShareSchema(body) == Required(body, "id") /\ Required(body, "station_id") /\ Ignore(body)

\* POST /shares/{id}: body.dict() holds every field of the schema, so all
\* three are assigned
post_shares_details(tok, share_id, body) ==
    /\ nreq < MaxRequests
    /\ LET s == gate_then_validate(tok, ShareSchema(body)) IN
       IF s # 200 THEN Reject("post_shares_details", tok, s)
       ELSE IF share_id \notin DOMAIN shares THEN Reject("post_shares_details", tok, 404)
       ELSE /\ shares' = [shares EXCEPT ![share_id] =
                            [@ EXCEPT !.station_id = Dict(body, "station_id"),
                                      !.note = Dict(body, "note"),
                                      !.archived = Dict(body, "archived")]]
            /\ Respond("post_shares_details", tok, 200, NoBody)
            /\ UNCHANGED <<users, members, bets, deposits, persons, seq, tokens, sessions, today>>

\* The field maps POST /shares is given: any columns of a share.
ShareFieldMaps ==
    [name : {Absent} \cup {Val(v) : v \in Names}, note : Field(Notes),
     archived : Field(BOOLEAN), station_id : {Absent} \cup {Val(v) : v \in StationIds}]

\* POST /shares: `for field in json: setattr(share, field, json.get(field))`
add_share(tok, json) ==
    /\ nreq < MaxRequests
    /\ IF login_required(tok) # 200 THEN Reject("add_share", tok, login_required(tok))
       ELSE /\ shares' = Put(shares, seq.share,
                            [NewShare EXCEPT !.name = Dict(json, "name"), !.note = Dict(json, "note"),
                                             !.archived = Dict(json, "archived"),
                                             !.station_id = Dict(json, "station_id")])
            /\ seq' = [seq EXCEPT !.share = @ + 1]
            /\ Respond("add_share", tok, 201, NoBody)
            /\ UNCHANGED <<users, members, bets, deposits, persons, tokens, sessions, today>>

(***************************************************************************)
(* Bets                                                                    *)
(***************************************************************************)
BetBodies ==
    [value : Field(Amounts), start_date : {Absent} \cup {Val(v) : v \in Days},
     end_date : {Absent} \cup {Val(v) : v \in Days}, extra : BOOLEAN]

\* class BetSchema(BaseModel, extra=Extra.forbid)
BetSchema(body) == Required(body, "value") /\ Required(body, "start_date") /\ Forbid(body)

bet_of(share_id, body) ==
    [share_id |-> share_id, value |-> The(Dict(body, "value")),
     start_date |-> The(Dict(body, "start_date")), end_date |-> Dict(body, "end_date")]

\* POST /shares/{id}/bets: @validate() is above @login_required()
post_bet(tok, share_id, body) ==
    /\ nreq < MaxRequests
    /\ LET s == validate_then_gate(tok, BetSchema(body)) IN
       IF s # 200 THEN Reject("post_bet", tok, s)
       ELSE IF ~share_fk_ok(share_id) THEN Reject("post_bet", tok, 500)
       ELSE /\ bets' = Put(bets, seq.bet, bet_of(share_id, body))
            /\ seq' = [seq EXCEPT !.bet = @ + 1]
            /\ Respond("post_bet", tok, 200, NoBody)
            /\ UNCHANGED <<users, shares, members, deposits, persons, tokens, sessions, today>>

\* PUT /bets/{id}: @validate() is above @login_required()
put_bet(tok, bet_id, body) ==
    /\ nreq < MaxRequests
    /\ LET s == validate_then_gate(tok, BetSchema(body)) IN
       IF s # 200 THEN Reject("put_bet", tok, s)
       ELSE IF bet_id \notin DOMAIN bets THEN Reject("put_bet", tok, 404)
       ELSE /\ bets' = [bets EXCEPT ![bet_id] = bet_of(bets[bet_id].share_id, body)]
            /\ Respond("put_bet", tok, 200, NoBody)
            /\ UNCHANGED <<users, shares, members, deposits, persons, seq, tokens, sessions, today>>

\* DELETE /shares/{id}/bets/{bet_id}: the share id of the path is not read
delete_bet(tok, bet_id) ==
    /\ nreq < MaxRequests
    /\ IF login_required(tok) # 200 THEN Reject("delete_bet", tok, login_required(tok))
       ELSE IF bet_id \notin DOMAIN bets THEN Reject("delete_bet", tok, 404)
       ELSE /\ bets' = Drop(bets, bet_id)
            /\ Respond("delete_bet", tok, 204, NoBody)
            /\ UNCHANGED <<users, shares, members, deposits, persons, seq, tokens, sessions, today>>

(***************************************************************************)
(* Deposits                                                                *)
(***************************************************************************)
DepositPatchBodies == [ignore : Field(BOOLEAN), is_security : Field(BOOLEAN), extra : BOOLEAN]

\* class DepositPatchSchema(BaseModel, extra=Extra.forbid)
DepositPatchSchema(body) == Forbid(body)

\* `for field in json: setattr(deposit, field, json.get(field))`
apply_deposit_patch(deposit, body) ==
    [deposit EXCEPT !.ignore = Dict(body, "ignore"), !.is_security = Dict(body, "is_security")]

\* PATCH /deposits/{id}
patch_deposit(tok, deposit_id, body) ==
    /\ nreq < MaxRequests
    /\ LET s == gate_then_validate(tok, DepositPatchSchema(body)) IN
       IF s # 200 THEN Reject("patch_deposit", tok, s)
       ELSE IF deposit_id \notin DOMAIN deposits THEN Reject("patch_deposit", tok, 404)
       ELSE /\ deposits' = [deposits EXCEPT ![deposit_id] = apply_deposit_patch(deposits[deposit_id], body)]
            /\ Respond("patch_deposit", tok, 200, NoBody)
            /\ UNCHANGED <<users, shares, members, bets, persons, seq, tokens, sessions, today>>

DepositBodies ==
    [ignore : Field(BOOLEAN), is_security : {Absent, Val(TRUE)},
     amount : {Absent} \cup {Val(v) : v \in Amounts}, timestamp : {Val(v) : v \in Days},
     title : {Val(v) : v \in Titles}, person_id : {Val(v) : v \in PersonIdInputs}, extra : BOOLEAN]

\* class DepositSchema(DepositPatchSchema): the config is inherited
DepositSchema(body) ==
    /\ Required(body, "amount") /\ Required(body, "timestamp")
    /\ Required(body, "title") /\ Required(body, "person_id")
    /\ Forbid(body)

\* The variant that records no operator.
new_deposit_unattributed(current_user, body) ==
    [added_by |-> None, ignore |-> Dict(body, "ignore"), is_security |-> Dict(body, "is_security"),
     amount |-> The(Dict(body, "amount")), timestamp |-> The(Dict(body, "timestamp")),
     title |-> The(Dict(body, "title")), person_id |-> Dict(body, "person_id")]

\* Deposit(added_by=current_user.id), then every field of the body
new_deposit(current_user, body) ==
    [added_by |-> Some(current_user), ignore |-> Dict(body, "ignore"),
     is_security |-> Dict(body, "is_security"),
     amount |-> The(Dict(body, "amount")), timestamp |-> The(Dict(body, "timestamp")),
     title |-> The(Dict(body, "title")), person_id |-> Dict(body, "person_id")]

\* POST /deposits/
post_deposit(tok, body) ==
    /\ nreq < MaxRequests
    /\ LET s == gate_then_validate(tok, DepositSchema(body)) IN
       IF s # 200 THEN Reject("post_deposit", tok, s)
       ELSE LET current_user == CHOOSE u \in UserIds : users[u].email = tok IN
            IF ~person_fk_ok(The(Dict(body, "person_id"))) THEN Reject("post_deposit", tok, 500)
            ELSE /\ deposits' = Put(deposits, seq.deposit, new_deposit(current_user, body))
                 /\ seq' = [seq EXCEPT !.deposit = @ + 1]
                 /\ Respond("post_deposit", tok, 200, NoBody)
                 /\ UNCHANGED <<users, shares, members, bets, persons, tokens, sessions, today>>

(***************************************************************************)
(* controller.py (modelled from the specification).                        *)
(***************************************************************************)
\* merge(share1, share2): the members, bets and persons of share2 move to
\* share1 and share2 is deleted; a missing share makes it a no-op.  The
\* requests of the model name two different ids.
merge_possible(share1, share2) == share1 \in DOMAIN shares /\ share2 \in DOMAIN shares

merge(share1, share2) ==
    IF ~merge_possible(share1, share2)
    THEN UNCHANGED <<shares, members, bets, persons>>
    ELSE /\ members' = [m \in DOMAIN members |->
                           IF members[m].share_id = share2 THEN [members[m] EXCEPT !.share_id = share1]
                           ELSE members[m]]
         /\ bets' = [b \in DOMAIN bets |->
                        IF bets[b].share_id = share2 THEN [bets[b] EXCEPT !.share_id = share1]
                        ELSE bets[b]]
         /\ persons' = [p \in DOMAIN persons |->
                           IF persons[p].share_id = Some(share2) THEN [persons[p] EXCEPT !.share_id = Some(share1)]
                           ELSE persons[p]]
         /\ shares' = Drop(shares, share2)

\* import_deposits(rows): one deposit per row not imported before, attributed
\* to the person the title names, or to nobody and set aside.
Rows == [amount : Amounts, timestamp : Days, title : Titles \cup {"unknown payer"}]
Batches == {<<>>} \cup {<<r>> : r \in Rows} \cup {<<r, r>> : r \in Rows}

imported(deps, row) ==
    \E d \in DOMAIN deps :
        deps[d].amount = row.amount /\ deps[d].timestamp = row.timestamp /\ deps[d].title = row.title

deposit_of_row(row) ==
    LET match == {p \in DOMAIN persons : persons[p].name = row.title} IN
    [added_by |-> None, is_security |-> None, amount |-> row.amount, timestamp |-> row.timestamp,
     title |-> row.title,
     person_id |-> IF match = {} THEN None ELSE Some(CHOOSE p \in match : TRUE),
     ignore |-> IF match = {} THEN Some(TRUE) ELSE None]

RECURSIVE import_deposits(_, _, _)
import_deposits(deps, next, rows) ==
    IF rows = <<>> THEN [deposits |-> deps, next |-> next]
    ELSE IF imported(deps, Head(rows)) THEN import_deposits(deps, next, Tail(rows))
    ELSE import_deposits(Put(deps, next, deposit_of_row(Head(rows))), next + 1, Tail(rows))

(***************************************************************************)
(* POST /shares/merge                                                      *)
(***************************************************************************)
MergeBodies ==
    [share1 : {Absent} \cup {Val(v) : v \in ShareIdInputs},
     share2 : {Val(v) : v \in ShareIdInputs}, extra : BOOLEAN]

\* class MergeSharesSchema(BaseModel): no extra=Extra.forbid
MergeSharesSchema(body) == Required(body, "share1") /\ Required(body, "share2") /\ Ignore(body)

merge_shares(tok, body) ==
    /\ nreq < MaxRequests
    /\ LET s == gate_then_validate(tok, MergeSharesSchema(body)) IN
       IF s # 200 THEN Reject("merge_shares", tok, s)
       ELSE /\ The(Dict(body, "share1")) # The(Dict(body, "share2"))
            /\ merge(The(Dict(body, "share1")), The(Dict(body, "share2")))
            /\ Respond("merge_shares", tok, 200, NoBody)
            /\ UNCHANGED <<users, deposits, seq, tokens, sessions, today>>

(***************************************************************************)
(* The legacy HTML routes (old_app.py), behind flask_login's session.      *)
(***************************************************************************)
\* The session cookies a browser can present: none (0), or one that was set.
NoSession == 0
Cookies == {NoSession} \cup sessions
Who(ses) == IF ses = NoSession THEN NoToken ELSE Email(ses)

\* flask_login.login_required
session_required(ses) == IF ses \in sessions THEN 200 ELSE 401

\* POST /login (the form always carries both fields)
login(email, password) ==
    /\ nreq < MaxRequests
    /\ LET user == authenticate_and_get(email, password) IN
       IF user # {}
       THEN /\ sessions' = sessions \cup user
            /\ Respond("old_app.login", NoToken, 302, NoBody)
            /\ UNCHANGED <<db, tokens, today>>
       ELSE Reject("old_app.login", NoToken, 401)

\* GET /logout
logout(ses) ==
    /\ nreq < MaxRequests
    /\ IF session_required(ses) # 200 THEN Reject("old_app.logout", Who(ses), 401)
       ELSE /\ sessions' = sessions \ {ses}
            /\ Respond("old_app.logout", Who(ses), 302, NoBody)
            /\ UNCHANGED <<db, tokens, today>>

\* The pages that only render: /, /share/{id}, /person/{id}, GET /bets, GET /upload
PageOps == {"old_app.index", "old_app.share_details", "old_app.person_details",
            "old_app.bets_overview", "old_app.upload_file"}

page(ses, op) ==
    /\ nreq < MaxRequests
    /\ Reject(op, Who(ses), session_required(ses))

\* POST /share/{id}/rename
rename_share(ses, share_id, new_name) ==
    /\ nreq < MaxRequests
    /\ IF session_required(ses) # 200 THEN Reject("old_app.rename_share", Who(ses), 401)
       ELSE IF new_name = None \/ new_name = Some("") THEN Reject("old_app.rename_share", Who(ses), 302)
       ELSE IF share_id \notin DOMAIN shares THEN Reject("old_app.rename_share", Who(ses), 500)
       ELSE /\ shares' = [shares EXCEPT ![share_id].name = new_name]
            /\ Respond("old_app.rename_share", Who(ses), 302, NoBody)
            /\ UNCHANGED <<users, members, bets, deposits, persons, seq, tokens, sessions, today>>

\* `deposit.ignore = not deposit.ignore`: None counts as false
toggled(ignore) == IF ignore = Some(TRUE) THEN Some(FALSE) ELSE Some(TRUE)

\* GET /deposit/{id}/ignore: the flag is saved before the deposit's person is read
ignore_deposit(ses, deposit_id) ==
    /\ nreq < MaxRequests
    /\ IF session_required(ses) # 200 THEN Reject("old_app.ignore_deposit", Who(ses), 401)
       ELSE IF deposit_id \notin DOMAIN deposits THEN Reject("old_app.ignore_deposit", Who(ses), 500)
       ELSE /\ deposits' = [deposits EXCEPT ![deposit_id].ignore = toggled(@)]
            /\ Respond("old_app.ignore_deposit", Who(ses),
                       IF deposits[deposit_id].person_id = None THEN 500 ELSE 302, NoBody)
            /\ UNCHANGED <<users, shares, members, bets, persons, seq, tokens, sessions, today>>

\* POST /merge_shares
old_merge_shares(ses, original_share, merge_share) ==
    /\ nreq < MaxRequests
    /\ IF session_required(ses) # 200 THEN Reject("old_app.merge_shares", Who(ses), 401)
       ELSE /\ original_share # merge_share
            /\ merge(original_share, merge_share)
            /\ Respond("old_app.merge_shares", Who(ses), 302, NoBody)
            /\ UNCHANGED <<users, deposits, seq, tokens, sessions, today>>

\* The file names of an upload, split at the dots.
FileNames == {<<"bank", "csv">>, <<"bank", "CSV">>, <<"bank", "txt">>, <<"bank">>}

\* allowed_file(filename)
allowed_file(filename) == Len(filename) > 1 /\ filename[Len(filename)] \in {"csv", "CSV"}

\* POST /upload
upload_file(ses, filename, rows) ==
    /\ nreq < MaxRequests
    /\ IF session_required(ses) # 200 THEN Reject("old_app.upload_file", Who(ses), 401)
       ELSE IF ~allowed_file(filename) THEN Reject("old_app.upload_file", Who(ses), 200)
       ELSE LET done == import_deposits(deposits, seq.deposit, rows) IN
            /\ deposits' = done.deposits
            /\ seq' = [seq EXCEPT !.deposit = done.next]
            /\ Respond("old_app.upload_file", Who(ses), 302, NoBody)
            /\ UNCHANGED <<users, shares, members, bets, persons, tokens, sessions, today>>

(***************************************************************************)
(* POST /bets: the bulk form.  A form of the model carries at most one     *)
(* field of each family (value-<id>, station-<id>, month-<id>).            *)
(***************************************************************************)
\* datetime(2017, month, 1)
BetsYear == 2017
MonthsInYear == 12

MonthTexts == {"1", "13", "x"}

\* int(text): the number, or None where int() raises ValueError
ParseInt(text) ==
    CASE text = "1" -> Some(1)
      [] text = "13" -> Some(13)
      [] OTHER -> None

BetsForms ==
    [value : {None} \cup {Some([id |-> i, v |-> a]) : i \in ShareIdInputs, a \in Amounts},
     station : {None} \cup {Some([id |-> i, v |-> st]) : i \in ShareIdInputs, st \in {None} \cup {Some(x) : x \in StationIds}},
     month : {None} \cup {Some([id |-> i, v |-> t]) : i \in ShareIdInputs, t \in MonthTexts}]

\* Share.set_value_for_id(value, share_id) (models.py, modelled from the
\* specification): sets the value of the share's current bet, or opens one,
\* and saves.
set_value_for_id(st, value, share_id) ==
    IF share_id \notin DOMAIN st.shares THEN [st EXCEPT !.ok = FALSE]
    ELSE LET current == {b \in DOMAIN st.bets :
                            /\ st.bets[b].share_id = share_id
                            /\ st.bets[b].start_date <= today
                            /\ (st.bets[b].end_date = None \/ today <= The(st.bets[b].end_date))}
         IN IF current = {}
            THEN [st EXCEPT !.bets = Put(st.bets, st.next,
                                         [share_id |-> share_id, value |-> value,
                                          start_date |-> today, end_date |-> None]),
                            !.next = @ + 1]
            ELSE [st EXCEPT !.bets = [b \in DOMAIN st.bets |->
                                         IF b \in current THEN [st.bets[b] EXCEPT !.value = value]
                                         ELSE st.bets[b]]]

\* Share.set_station_for_id(station_id, share_id) (models.py, modelled from
\* the specification): sets the station of the share and saves.
set_station_for_id(st, station_id, share_id) ==
    IF share_id \notin DOMAIN st.shares THEN [st EXCEPT !.ok = FALSE]
    ELSE [st EXCEPT !.shares[share_id].station_id = Some(station_id)]

\* The three loops of bets_overview, each save kept as it is made: the
\* values, then the stations, then the months.
bets_form_steps(form) ==
    LET start == [ok |-> TRUE, shares |-> shares, bets |-> bets, next |-> seq.bet]
        after_values == IF form.value = None THEN start
                        ELSE set_value_for_id(start, The(form.value).v, The(form.value).id)
        after_stations == IF ~after_values.ok \/ form.station = None \/ The(form.station).v = None
                          THEN after_values
                          ELSE set_station_for_id(after_values, The(The(form.station).v), The(form.station).id)
        after_months ==
            IF ~after_stations.ok \/ form.month = None THEN after_stations
            ELSE LET month == ParseInt(The(form.month).v)
                     share_id == The(form.month).id
                 IN IF month = None THEN [after_stations EXCEPT !.ok = FALSE]
                    ELSE IF share_id \notin DOMAIN shares THEN [after_stations EXCEPT !.ok = FALSE]
                    ELSE IF The(month) \notin 1..MonthsInYear THEN [after_stations EXCEPT !.ok = FALSE]
                    ELSE [after_stations EXCEPT !.shares[share_id].start_date =
                                                    Some(<<BetsYear, The(month), 1>>)]
    IN after_months

\* POST /bets
bets_overview(ses, form) ==
    /\ nreq < MaxRequests
    /\ IF session_required(ses) # 200 THEN Reject("old_app.bets_overview.post", Who(ses), 401)
       ELSE LET done == bets_form_steps(form) IN
            /\ shares' = done.shares
            /\ bets' = done.bets
            /\ seq' = [seq EXCEPT !.bet = done.next]
            /\ Respond("old_app.bets_overview.post", Who(ses), IF done.ok THEN 302 ELSE 500, NoBody)
            /\ UNCHANGED <<users, members, deposits, persons, tokens, sessions, today>>

(***************************************************************************)
(* Time passes.                                                            *)
(***************************************************************************)
NextDay ==
    /\ today < MaxDay
    /\ today' = today + 1
    /\ UNCHANGED <<db, tokens, sessions, resp, nreq>>

(***************************************************************************)
(* The store as seeded: accounts created by the administrative command     *)
(* (every second one still provisional, its password never changed), two   *)
(* shares, a member, a pledge, a payer and one imported deposit.           *)
(***************************************************************************)
Init ==
    /\ users = [u \in UserIds |->
                  [email |-> Email(u), password |-> Hash(InitialPassword),
                   password_changed_at |-> IF u % 2 = 0 THEN None ELSE Some(1)]]
    /\ shares = (1 :> [name |-> Some("Ada"), note |-> Some("paid late"), archived |-> Some(FALSE),
                       station_id |-> Some(1), start_date |-> None]
                 @@ 2 :> NewShare)
    /\ members = (1 :> [name |-> "Ada", email |-> Some("ada@home"), phone |-> None, share_id |-> 1])
    /\ bets = (1 :> [share_id |-> 1, value |-> 30, start_date |-> 1, end_date |-> None])
    /\ persons = (1 :> [name |-> "Ada Lovelace", share_id |-> Some(1)])
    /\ deposits = (1 :> [person_id |-> Some(1), amount |-> 30, timestamp |-> 1, title |-> "Ada Lovelace",
                         ignore |-> Some(FALSE), is_security |-> Some(FALSE), added_by |-> None])
    /\ seq = [share |-> 3, member |-> 2, bet |-> 2, deposit |-> 2, person |-> 2]
    /\ tokens = {}
    /\ sessions = {}
    /\ today = 1
    /\ resp = [op |-> "", tok |-> NoToken, status |-> 0, body |-> NoBody]
    /\ nreq = 0

Next ==
    \/ \E body \in LoginBodies : api_login(body)
    \/ \E tok \in Bearers, op \in ListOps : get_list(tok, op)
    \/ \E tok \in Bearers, op \in ByShareOps, id \in ShareIdInputs : get_by_id(tok, op, id)
    \/ \E tok \in Bearers, id \in PersonIdInputs : get_by_id(tok, "get_person", id)
    \/ \E tok \in Bearers, body \in MemberBodies : post_member(tok, body)
    \/ \E tok \in Bearers, id \in MemberIdInputs, body \in MemberBodies : patch_member(tok, id, body)
    \/ \E tok \in Bearers, id \in MemberIdInputs : member_delete(tok, id)
    \/ \E tok \in Bearers : get_payment_list(tok)
    \/ \E tok \in Bearers, id \in ShareIdInputs : shares_details(tok, id)
    \/ \E tok \in Bearers, id \in ShareIdInputs, body \in BetBodies : post_bet(tok, id, body)
    \/ \E tok \in Bearers, id \in BetIdInputs, body \in BetBodies : put_bet(tok, id, body)
    \/ \E tok \in Bearers, id \in BetIdInputs : delete_bet(tok, id)
    \/ \E tok \in Bearers, id \in ShareIdInputs, body \in SharePatchBodies : patch_share(tok, id, body)
    \/ \E tok \in Bearers, id \in ShareIdInputs, body \in ShareBodies : post_shares_details(tok, id, body)
    \/ \E tok \in Bearers, json \in ShareFieldMaps : add_share(tok, json)
    \/ \E tok \in Bearers, id \in DepositIdInputs, body \in DepositPatchBodies : patch_deposit(tok, id, body)
    \/ \E tok \in Bearers, body \in DepositBodies : post_deposit(tok, body)
    \/ \E tok \in Bearers, body \in MergeBodies : merge_shares(tok, body)
    \/ \E tok \in Bearers, id \in UserIds \cup {NumUsers + 1}, body \in UserBodies : modify_user(tok, id, body)
    \/ \E email \in Emails \cup {UnknownEmail}, password \in Passwords : login(email, password)
    \/ \E ses \in Cookies : logout(ses)
    \/ \E ses \in Cookies, op \in PageOps : page(ses, op)
    \/ \E ses \in Cookies, id \in ShareIdInputs, name \in {None, Some(""), Some("Hof Ada")} : rename_share(ses, id, name)
    \/ \E ses \in Cookies, id \in DepositIdInputs : ignore_deposit(ses, id)
    \/ \E ses \in Cookies, a \in ShareIdInputs, b \in ShareIdInputs : old_merge_shares(ses, a, b)
    \/ \E ses \in Cookies, form \in BetsForms : bets_overview(ses, form)
    \/ \E ses \in Cookies, filename \in FileNames, rows \in Batches : upload_file(ses, filename, rows)
    \/ NextDay

Spec == Init /\ [][Next]_vars

(***************************************************************************)
(* Properties.                                                             *)
(***************************************************************************)
\* The step is a request that was served.
Served == nreq' = nreq + 1

\* The JSON API endpoints behind the token gate (every one but POST /login).
GatedOps ==
    ListOps \cup ByShareOps \cup
    {"get_person", "post_member", "patch_member", "member_delete", "get_payment_list",
     "shares_details", "post_bet", "put_bet", "delete_bet", "patch_share",
     "post_shares_details", "add_share", "patch_deposit", "post_deposit", "merge_shares",
     "modify_user"}

\* The token's subject is an account whose password was never changed.
Provisional(tok) ==
    /\ tok \in tokens
    /\ \E u \in UserIds : users[u].email = tok /\ users[u].password_changed_at = None

\* C1: every request to a gated JSON endpoint that carries the valid token of
\* a provisional account, whatever its body, is answered 403 and writes no
\* record.
C1_ProvisionalAlwaysForbidden ==
    [][(Served /\ resp'.op \in GatedOps /\ Provisional(resp'.tok))
          => (resp'.status = 403 /\ db' = db)]_vars

\* C2: on every endpoint that declares a request schema (POST /shares/{id}
\* set aside), a payload with a field the schema does not name is rejected
\* with a 4xx response and no record is created, changed or deleted.
Rejected4xx == resp'.status \in 400..499 /\ db' = db

C2_UnknownFieldRejected ==
    [][Served =>
        /\ \A body \in LoginBodies : (body.extra /\ api_login(body)) => Rejected4xx
        /\ \A tok \in Bearers, body \in MemberBodies :
              (body.extra /\ post_member(tok, body)) => Rejected4xx
        /\ \A tok \in Bearers, id \in MemberIdInputs, body \in MemberBodies :
              (body.extra /\ patch_member(tok, id, body)) => Rejected4xx
        /\ \A tok \in Bearers, id \in ShareIdInputs, body \in BetBodies :
              (body.extra /\ post_bet(tok, id, body)) => Rejected4xx
        /\ \A tok \in Bearers, id \in BetIdInputs, body \in BetBodies :
              (body.extra /\ put_bet(tok, id, body)) => Rejected4xx
        /\ \A tok \in Bearers, id \in ShareIdInputs, body \in SharePatchBodies :
              (body.extra /\ patch_share(tok, id, body)) => Rejected4xx
        /\ \A tok \in Bearers, id \in DepositIdInputs, body \in DepositPatchBodies :
              (body.extra /\ patch_deposit(tok, id, body)) => Rejected4xx
        /\ \A tok \in Bearers, body \in DepositBodies :
              (body.extra /\ post_deposit(tok, body)) => Rejected4xx
        /\ \A tok \in Bearers, body \in MergeBodies :
              (body.extra /\ merge_shares(tok, body)) => Rejected4xx
        /\ \A tok \in Bearers, id \in UserIds, body \in UserBodies :
              (body.extra /\ modify_user(tok, id, body)) => Rejected4xx]_vars

\* C3: a request is all-or-nothing: when POST /members or the legacy
\* POST /bets fails partway through, none of its earlier writes remain.
C3_FailedRequestWritesNothing ==
    [][(Served /\ resp'.op \in {"post_member", "old_app.bets_overview.post"} /\ resp'.status >= 500)
          => db' = db]_vars

\* C4: a stored password changes only in a successful PATCH /users/{id} whose
\* token subject is that user's own email; a PATCH /users/{id} by a caller
\* with another email changes no password, and is answered 403 when it
\* carries a valid token and a body that passes the schema.
C4_PasswordOnlyBySelf ==
    [][/\ \A u \in UserIds :
             users'[u].password # users[u].password
                => (Served /\ resp'.op = "modify_user" /\ resp'.status = 200
                    /\ resp'.tok = users[u].email)
       /\ (Served /\ resp'.op = "modify_user")
             => \A tok \in Bearers, id \in UserIds, body \in UserBodies :
                   (modify_user(tok, id, body) /\ tok # users[id].email)
                      => /\ \A u \in UserIds : users'[u].password = users[u].password
                         /\ (tok \in tokens /\ PatchUserModel(body)) => resp'.status = 403]_vars

\* Reached for C4: a caller that passes the gate was refused another user's password.
C4_Witness ==
    /\ resp.op = "modify_user" /\ resp.status = 403
    /\ login_required(resp.tok) = 200
    /\ \A u \in UserIds : users[u].password = Hash(InitialPassword)

\* C5: a successful POST /members creates exactly one member; with no share_id
\* in the body it also creates exactly one new, empty share and attaches the
\* member to it; with the id of an existing share it creates no share and
\* attaches the member to that share.
C5_PostMemberShares ==
    [][(Served /\ resp'.op = "post_member" /\ resp'.status = 200)
          => \A tok \in Bearers, body \in MemberBodies :
                post_member(tok, body)
                   => LET created == DOMAIN members' \ DOMAIN members
                          opened == DOMAIN shares' \ DOMAIN shares
                      IN /\ Cardinality(created) = 1
                         /\ \A m \in DOMAIN members : members'[m] = members[m]
                         /\ \A x \in DOMAIN shares : x \in DOMAIN shares' /\ shares'[x] = shares[x]
                         /\ (body.share_id \in {Absent, Null})
                               => /\ Cardinality(opened) = 1
                                  /\ \A x \in opened : shares'[x] = NewShare
                                  /\ \A m \in created : members'[m].share_id \in opened
                         /\ (body.share_id \notin {Absent, Null} /\ The(Dict(body, "share_id")) \in DOMAIN shares)
                               => /\ opened = {}
                                  /\ \A m \in created : members'[m].share_id = The(Dict(body, "share_id"))]_vars

\* Reached for C5: a member was created together with its new, empty share.
C5_Witness ==
    /\ resp.op = "post_member" /\ resp.status = 200
    /\ \E m \in DOMAIN members, x \in DOMAIN shares :
          /\ m = seq.member - 1 /\ x = seq.share - 1
          /\ members[m].share_id = x /\ shares[x] = NewShare /\ x > 2

\* The rows GET /shares/payment_status would report now.
payment_rows ==
    [s \in DOMAIN shares |->
        payment_difference(GetOr(get_expected_amount_map, s, 0),
                           IF s \in DOMAIN get_deposit_map THEN get_deposit_map[s].total_deposits ELSE 0)]

C7_DepositsImmutable ==
    [][/\ \A d \in DOMAIN deposits :
             /\ d \in DOMAIN deposits'
             /\ deposits'[d].amount = deposits[d].amount
             /\ deposits'[d].timestamp = deposits[d].timestamp
             /\ deposits'[d].title = deposits[d].title
             /\ deposits'[d].person_id = deposits[d].person_id
             /\ deposits'[d].added_by = deposits[d].added_by
             /\ deposits'[d] # deposits[d]
                   => Served /\ resp'.op \in {"patch_deposit", "old_app.ignore_deposit"}
       /\ (Served /\ resp'.op = "post_deposit" /\ resp'.status = 200)
             => /\ Cardinality(DOMAIN deposits' \ DOMAIN deposits) = 1
                /\ \A d \in DOMAIN deposits' \ DOMAIN deposits :
                      /\ deposits'[d].added_by # None
                      /\ users[The(deposits'[d].added_by)].email = resp'.tok]_vars

\* Reached for C7: a deposit recorded through the API stands beside the imported one.
C7_Witness ==
    /\ resp.op = "post_deposit" /\ resp.status = 200
    /\ \E d \in DOMAIN deposits : deposits[d].added_by # None /\ users[The(deposits[d].added_by)].email = resp.tok
    /\ \E d \in DOMAIN deposits : deposits[d].added_by = None

\* C8: a successful PATCH /members/{id} sets the fields given with a value
\* that is not null and leaves every other field (absent or null in the body)
\* and every other member as stored.
C8_PatchMemberFrame ==
    [][(Served /\ resp'.op = "patch_member" /\ resp'.status = 200)
          => \A tok \in Bearers, id \in MemberIdInputs, body \in MemberBodies :
                patch_member(tok, id, body)
                   => /\ DOMAIN members' = DOMAIN members
                      /\ \A m \in DOMAIN members \ {id} : members'[m] = members[m]
                      /\ members'[id].name =
                            (IF body.name \in {Absent, Null} THEN members[id].name ELSE The(UNION body.name))
                      /\ members'[id].email =
                            (IF body.email \in {Absent, Null} THEN members[id].email ELSE UNION body.email)
                      /\ members'[id].phone =
                            (IF body.phone \in {Absent, Null} THEN members[id].phone ELSE UNION body.phone)
                      /\ members'[id].share_id =
                            (IF body.share_id \in {Absent, Null} THEN members[id].share_id
                             ELSE The(UNION body.share_id))]_vars

\* Reached for C8: a patch gave the member a phone and left its e-mail as it was.
C8_Witness ==
    /\ resp.op = "patch_member" /\ resp.status = 200
    /\ \E m \in DOMAIN members :
          members[m].phone # None /\ members[m].email = Some("ada@home") /\ members[m].name = "Ada"

\* C9: a provisional account stays provisional under any sequence of
\* requests: its password and its missing password_changed_at never change,
\* and no gated endpoint ever answers its token with a 2xx.
C9_ProvisionalStays ==
    [][/\ \A u \in UserIds :
             users[u].password_changed_at = None
                => /\ users'[u].password_changed_at = None
                   /\ users'[u].password = users[u].password
       /\ (Served /\ resp'.op \in GatedOps /\ Provisional(resp'.tok))
             => resp'.status \notin 200..299]_vars

\* Reached for C9: a provisional account asked for its own password change and was refused.
C9_Witness ==
    /\ resp.op = "modify_user" /\ resp.status = 403
    /\ \E u \in UserIds :
          /\ users[u].email = resp.tok /\ resp.tok \in tokens
          /\ users[u].password_changed_at = None

\* C10: PATCH /shares/{id} and PATCH /deposits/{id} change only the fields
\* the body supplies: a field absent from the body keeps its stored value.
C10_PatchOnlySupplied ==
    [][Served =>
        /\ \A tok \in Bearers, id \in ShareIdInputs, body \in SharePatchBodies :
              (patch_share(tok, id, body) /\ resp'.status = 200)
                 => /\ body.note = Absent => shares'[id].note = shares[id].note
                    /\ body.archived = Absent => shares'[id].archived = shares[id].archived
        /\ \A tok \in Bearers, id \in DepositIdInputs, body \in DepositPatchBodies :
              (patch_deposit(tok, id, body) /\ resp'.status = 200)
                 => /\ body.ignore = Absent => deposits'[id].ignore = deposits[id].ignore
                    /\ body.is_security = Absent
                          => deposits'[id].is_security = deposits[id].is_security]_vars

=============================================================================
